---- MODULE Spec2Model ----
(***************************************************************************)
(* The lane-runner engine of src/Game/movimentoPersonagem.js: terrain      *)
(* streaming (createRow, spawnTreesOnRow, spawnCarsOnRow, initTerrain,     *)
(* updateTerrain), the key handler (keyDown), the pause button, gameOver,  *)
(* restartGame and the per-frame callback drawScene.                       *)
(*                                                                         *)
(* Numbers.  The source computes in floating point.  Here every coordinate *)
(* is an integer number of tenths of a world unit (step = 1.0 is 10), so   *)
(* -5 is -50, the tree half-size 0.5 is 5, the car half-size 0.7 is 7 and  *)
(* the catch-up margin 3.8 is 38.  Time is in milliseconds, as the frame   *)
(* timestamp is; the intervals between frames are multiples of 500 ms, so  *)
(* that scrollSpeed * dt and car.speed * dt are exact numbers of tenths.   *)
(* Math.random() is an input: every draw a row needs is read from          *)
(* Rnd(sd, x), and the seed sd is chosen when the terrain is (re)built.    *)
(***************************************************************************)
EXTENDS Integers, Sequences, FiniteSets, TLC

\* ------------------------------------------------------- program constants
step == 10                 \* const step = 1.0 (one world unit, in tenths)
ROW_DEPTH == 10            \* const ROW_DEPTH = 1.0
TERRAIN_WIDTH == 31        \* blocks across a row
DRAW_DISTANCE == 40        \* rows drawn ahead
initialX == -50            \* const initialX = -5
scrollSpeedT == 2          \* scrollSpeed = 0.2 units per second, in tenths
MsPerSecond == 1000        \* dt = (time - lastTime) / 1000.0
TREE_COLLISION_SIZE == 5   \* COLLISION_SIZE = 0.5 in checkCollisionWithTrees
CAR_COLLISION_SIZE == 7    \* COLLISION_SIZE = 0.7 in checkCollisionWithCars
MIN_DISTANCE == 30         \* MIN_DISTANCE = 3.0 in spawnCarsOnRow
CAR_RADIUS == 20           \* 2.0 in the car update of drawScene
CATCH_UP_MARGIN == 38      \* 3.8 in drawScene
lookAhead == 100           \* const lookAhead = 10.0
BEHIND_MARGIN == 150       \* 15.0 in updateTerrain
START_CAMERA == -120       \* cameraX = -12.0
SAFE_ZONE == 30            \* 3.0 in spawnTreesOnRow
CanvasWidth == 300         \* gl.canvas.width
CanvasHeight == 150        \* gl.canvas.height
NumObjFiles == 13          \* objFiles.length

\* ------------------------------------------------------------------ bounds
NumSeeds == 2              \* seeds of the random source
MaxFrames == 2             \* frame callbacks in a run
MaxFwd == 10               \* rows the player may walk ahead of the spawn row
MaxBack == 0               \* rows the player may walk behind the spawn row
MaxLongFrames == 1         \* long frames in a session in which game time passes

Seeds == 1..NumSeeds
DtChoices == {500, 20000}  \* ms between two frame callbacks
MoveKeys == {"w", "a", "s", "d"}
CameraKeys == {"1", "2", "c"}

NullTime == -1             \* let lastTime = null

Abs(n) == IF n < 0 THEN -n ELSE n
\* Always TRUE.  The loops below pass their accumulator through it, so that
\* each pass is computed before the next one starts and the evaluation stack
\* stays shallow.
Evaluated(seq) == Len(seq) >= 0
halfWidth == TERRAIN_WIDTH \div 2
\* Faulty variant of boundaryLimit: half the terrain width instead of a
\* quarter of it plus one.
boundaryLimitHalfWidth == (TERRAIN_WIDTH \div 2) * step

boundaryLimit == ((TERRAIN_WIDTH \div 4) + 1) * step
\* worldHeight / 6.0, where worldHeight = 6.0 / aspect, in tenths
viewOffset == (step * CanvasHeight) \div CanvasWidth

\* ---------------------------------------------------------- random source
\* The draws of Math.random() one row consumes: road is "Math.random() <
\* 0.4", dirNeg is "Math.random() < 0.5", speed is 3 + Math.random() * 7
\* (units per second), treeAt lists in increasing order the zOffsets where
\* "Math.random() < 0.15", carZ is the list of randomZ candidates (its length is numCars).
Draw(road, dirNeg, speed, treeAt, carZ) ==
    [road |-> road, dirNeg |-> dirNeg, speed |-> speed, treeAt |-> treeAt,
     carZ |-> carZ]

Generic(xi) ==
    CASE xi % 5 = 0 -> Draw(TRUE, TRUE, 5, <<>>, <<-140, 60, 75, 120>>)
      [] xi % 5 = 1 -> Draw(FALSE, FALSE, 3, <<-5, 4>>, <<0, 0>>)
      [] xi % 5 = 3 -> Draw(TRUE, FALSE, 9, <<2>>, <<140, -148>>)
      [] OTHER      -> Draw(FALSE, TRUE, 4, <<-12, 7>>, <<10, 20, 30>>)

\* The zOffsets from a to b, in the order the loop visits them.
Span(a, b) == [i \in 1..(b - a + 1) |-> a + i - 1]

Rnd(sd, x) ==
    LET xi == x \div step
        wall == Draw(xi <= -5, FALSE, 3, Span(-3, 3), <<0, 0>>)
    IN  CASE xi <= -9 -> Draw(sd = 2, FALSE, 3, <<>>, <<0, 0>>)
          [] xi = -8 -> wall
          [] sd = 1 /\ xi \in -7..-3 -> wall
          [] sd = 1 /\ xi = -2 -> Draw(FALSE, FALSE, 3, <<-3, -2, -1, 1, 2, 3>>, <<0, 0>>)
          [] sd = 1 /\ xi \in -1..5 -> Draw(FALSE, FALSE, 3, <<-1, 1>>, <<0, 0>>)
          [] sd = 2 /\ xi \in {-7, -3} -> wall
          [] sd = 2 /\ xi \in {-6, -4} -> Draw(xi = -6, FALSE, 3, Span(-9, 9), <<0, 0>>)
          [] sd = 2 /\ xi = -5 -> Draw(TRUE, FALSE, 3, <<-3, 3>>, <<0, 0>>)
          [] sd = 2 /\ xi = -2 -> Draw(TRUE, FALSE, 3, <<0>>, <<-15, 0, 140, -148>>)
          [] sd = 2 /\ xi = -1 -> Draw(FALSE, FALSE, 3, Span(-8, 8), <<0, 0>>)
          [] sd > 2 /\ xi \in -7..-2 -> wall
          [] OTHER -> Generic(xi)

\* ------------------------------------------------------------ terrain
\* createRow(xPosition): the row descriptor; direction and speed are 0 for
\* the source's null.  (modelIndex and the unused row.cars are left out.)
createRow(xPosition, r) ==
    LET type == IF xPosition > initialX /\ r.road THEN "road" ELSE "grass"
    IN  [x |-> xPosition, type |-> type,
         direction |-> IF type = "road" THEN (IF r.dirNeg THEN -1 ELSE 1) ELSE 0,
         speed |-> IF type = "road" THEN r.speed ELSE 0]

\* spawnTreesOnRow(row): the loop over zOffset = -halfWidth .. halfWidth
\* pushes a tree at every zOffset that is outside the keep-clear square and
\* whose draw succeeds, in increasing zOffset.
treeSlots(row, r) ==
    SelectSeq(r.treeAt, LAMBDA zOffset :
        /\ zOffset \in -halfWidth..halfWidth
        /\ ~(Abs(row.x - initialX) < SAFE_ZONE /\ Abs(zOffset * step) < SAFE_ZONE))

TreesFrom(row, zs) ==
    [i \in 1..Len(zs) |-> [x |-> row.x, z |-> zs[i] * step]]

spawnTreesOnRow(ts, row, r) ==
    IF row.type # "grass" THEN ts
    ELSE ts \o TreesFrom(row, treeSlots(row, r))

\* Faulty variant of tooClose: no candidate is turned down.
tooCloseNever(cs, x, randomZ) == FALSE

\* cars.some(car => car.x === row.x && Math.abs(car.z - randomZ) < MIN_DISTANCE)
tooClose(cs, x, randomZ) ==
    \E k \in 1..Len(cs) : cs[k].x = x /\ Abs(cs[k].z - randomZ) < MIN_DISTANCE

\* spawnCarsOnRow(row): candidate i is pushed unless a car already on the
\* row's x is closer than MIN_DISTANCE.
RECURSIVE CarsFrom(_, _, _, _)
CarsFrom(cs, row, r, i) ==
    IF i > Len(r.carZ) THEN cs
    ELSE LET randomZ == r.carZ[i]
         IN  IF tooClose(cs, row.x, randomZ) THEN CarsFrom(cs, row, r, i + 1)
             ELSE CarsFrom(Append(cs, [x |-> row.x, z |-> randomZ,
                                       speed |-> row.speed,
                                       direction |-> row.direction,
                                       minZ |-> -halfWidth * step,
                                       maxZ |-> halfWidth * step]),
                           row, r, i + 1)

spawnCarsOnRow(cs, row, r) ==
    IF row.type # "road" THEN cs ELSE CarsFrom(cs, row, r, 1)

\* One pass of the row loop shared by initTerrain and updateTerrain:
\* createRow, push, spawnTreesOnRow, spawnCarsOnRow.
addRowDrawn(w, x, r) ==
    LET newRow == createRow(x, r)
    IN  [rows |-> Append(w.rows, newRow),
         trees |-> spawnTreesOnRow(w.trees, newRow, r),
         cars |-> spawnCarsOnRow(w.cars, newRow, r)]

\* The pass for the draws that the seed gives the row at x.
addRow(w, x, sd) == addRowDrawn(w, x, Rnd(sd, x))

\* n passes of the row loop, for x, x + ROW_DEPTH, ...  The passes run in
\* order; the recursion halves n, and hands the first half over as an
\* argument, only to keep the evaluation shallow.
RECURSIVE addRows(_, _, _, _), thenAddRows(_, _, _, _)
addRows(w, x, n, sd) ==
    IF n <= 0 THEN w
    ELSE IF n = 1 THEN addRow(w, x, sd)
    ELSE thenAddRows(addRows(w, x, n \div 2, sd),
                     x + (n \div 2) * ROW_DEPTH, n - (n \div 2), sd)

thenAddRows(w, x, n, sd) ==
    IF Evaluated(w.rows) THEN addRows(w, x, n, sd) ELSE w

\* for (let i = -10; i < DRAW_DISTANCE; i++)
initTerrain(w, startX, sd) ==
    addRows(w, startX + (-10) * ROW_DEPTH, DRAW_DISTANCE - (-10), sd)

\* while (terrainRows.length > 0 && terrainRows[0].x < removeThreshold) shift():
\* what is left starts at the first row that is not behind the threshold.
shiftLoop(rows, removeThreshold) ==
    LET stop == {i \in 1..Len(rows) : rows[i].x >= removeThreshold}
    IN  IF stop = {} THEN <<>>
        ELSE SubSeq(rows, CHOOSE i \in stop : \A j \in stop : i <= j, Len(rows))

\* Passes of "while (lastX < addThreshold) { lastX += ROW_DEPTH; ... }".
extendCount(lastX, addThreshold) ==
    IF lastX < addThreshold
    THEN (addThreshold - lastX + ROW_DEPTH - 1) \div ROW_DEPTH
    ELSE 0

\* Faulty variant of updateTerrain: the trees are not filtered.
updateTerrainKeepsTrees(w, currentCameraX, sd) ==
    LET removeThreshold == currentCameraX - BEHIND_MARGIN
        rows1 == shiftLoop(w.rows, removeThreshold)
        cars1 == SelectSeq(w.cars, LAMBDA car : car.x >= removeThreshold)
        lastX == IF Len(rows1) > 0 THEN rows1[Len(rows1)].x ELSE 0
        addThreshold == currentCameraX + DRAW_DISTANCE * step
    IN  addRows([rows |-> rows1, trees |-> w.trees, cars |-> cars1],
                lastX + ROW_DEPTH, extendCount(lastX, addThreshold), sd)

\* Faulty variant of updateTerrain: lastX is read from the first row.
updateTerrainLastFromFirst(w, currentCameraX, sd) ==
    LET removeThreshold == currentCameraX - BEHIND_MARGIN
        rows1 == shiftLoop(w.rows, removeThreshold)
        trees1 == SelectSeq(w.trees, LAMBDA tree : tree.x >= removeThreshold)
        cars1 == SelectSeq(w.cars, LAMBDA car : car.x >= removeThreshold)
        lastX == IF Len(rows1) > 0 THEN rows1[1].x ELSE 0
        addThreshold == currentCameraX + DRAW_DISTANCE * step
    IN  addRows([rows |-> rows1, trees |-> trees1, cars |-> cars1],
                lastX + ROW_DEPTH, extendCount(lastX, addThreshold), sd)

updateTerrain(w, currentCameraX, sd) ==
    LET removeThreshold == currentCameraX - BEHIND_MARGIN
        rows1 == shiftLoop(w.rows, removeThreshold)
        trees1 == SelectSeq(w.trees, LAMBDA tree : tree.x >= removeThreshold)
        cars1 == SelectSeq(w.cars, LAMBDA car : car.x >= removeThreshold)
        lastX == IF Len(rows1) > 0 THEN rows1[Len(rows1)].x ELSE 0
        addThreshold == currentCameraX + DRAW_DISTANCE * step
    IN  addRows([rows |-> rows1, trees |-> trees1, cars |-> cars1],
                lastX + ROW_DEPTH, extendCount(lastX, addThreshold), sd)

EmptyWorld == [rows |-> <<>>, trees |-> <<>>, cars |-> <<>>]

\* What initTerrain(-12) makes of the empty arrays, for each of the seeds
\* 1..n.
RECURSIVE FreshWorlds(_)
FreshWorlds(n) ==
    IF n = 0 THEN <<>>
    ELSE Append(FreshWorlds(n - 1), initTerrain(EmptyWorld, START_CAMERA, n))

FreshWorld == FreshWorlds(NumSeeds)

\* ------------------------------------------------------------ state
VARIABLES
    player,        \* [x, z, rotationY]
    cameraX,
    isPaused,
    isGameOver,
    lastTime,      \* NullTime for null; else how many ms before the latest frame
                   \* callback the timestamp in lastTime was taken (0: lastTime is
                   \* the timestamp of the latest callback)
    maxDistanceX,
    scoreText,     \* scoreElement.textContent
    modalHidden,   \* gameOverModal has the class "hidden"
    terrainRows,
    trees,
    cars,
    seed,          \* state of the random source for this session
    frames,        \* frames of this session in which game time passed (dt > 0)
    hist,          \* the latest event, [ev, phase, dt, clicks, before, gap, fresh]:
                   \* ev is
                   \* "init", "restart", "pause", "tick", "spawn", or what the
                   \* latest key press did ("moved", "blocked", "ignored", or
                   \* "view" for a camera key); phase is the
                   \* phase it came in; dt is the dt, in ms, that a tick computed
                   \* (0 for the rest); clicks is 1 or 2 after the first or the
                   \* second of two pause clicks in a row, and before is then the
                   \* session and the positions ahead of the first of them; gap
                   \* is the time since the callback before, for a tick that
                   \* computed its dt from a lastTime that was set; fresh tells
                   \* the first tick after restartGame
    resumed,       \* history of the pause: 1 from a paused tick until the next
                   \* tick that is not paused, 2 after that tick, 0 otherwise
                   \* (followed in SpecPause only)
    view,          \* [projectionMode, cameraMode, V]: the projection ("ortho" or
                   \* "perspective"), the camera (0 or 1) and the up vector V
    boot           \* how main() went, [models, result, errorLogged, raf]: models
                   \* is models.length after the loading loop (-1 before it);
                   \* result is what main's promise settled with ("pending"
                   \* until then); errorLogged tells that console.error was
                   \* called; raf tells that a frame callback is requested

vars == <<player, cameraX, isPaused, isGameOver, lastTime, maxDistanceX,
          scoreText, modalHidden, terrainRows, trees, cars,
          seed, frames, hist, resumed, view, boot>>

\* The session phase of the spec, read off the two flags.
Phase == IF isGameOver THEN "GameOver" ELSE IF isPaused THEN "Paused" ELSE "Running"

\* The session flags and the entity positions.
Snapshot == [isPaused |-> isPaused, isGameOver |-> isGameOver, player |-> player,
             cameraX |-> cameraX, terrainRows |-> terrainRows, trees |-> trees,
             cars |-> cars]

NoSnapshot == [isPaused |-> FALSE, isGameOver |-> FALSE,
               player |-> [x |-> 0, z |-> 0, rotationY |-> 0],
               cameraX |-> 0, terrainRows |-> <<>>, trees |-> <<>>, cars |-> <<>>]

\* fresh follows the first tick after restartGame: 1 from restartGame until
\* the next tick, 2 in the event of that tick, 0 otherwise.
Event(ev, dtMs) == [ev |-> ev, phase |-> Phase, dt |-> dtMs,
                    clicks |-> 0, before |-> NoSnapshot,
                    gap |-> 0,
                    fresh |-> IF ev = "restart" THEN 1
                              ELSE IF hist.fresh = 1
                                   THEN (IF ev = "tick" THEN 2 ELSE 1)
                                   ELSE 0]

\* The event of a pause click: the second click in a row keeps the snapshot
\* the first one took.
ClickEvent ==
    IF hist.ev = "pause" /\ hist.clicks = 1
    THEN [Event("pause", 0) EXCEPT !.clicks = 2, !.before = hist.before]
    ELSE [Event("pause", 0) EXCEPT !.clicks = 1, !.before = Snapshot]

\* What a key press did: keyDown returns at once while isPaused; otherwise the
\* position changed or the move was turned down.
KeyOutcome(before, after) ==
    IF isPaused THEN "ignored"
    ELSE IF after.x # before.x \/ after.z # before.z THEN "moved" ELSE "blocked"

\* ------------------------------------------------------------ collisions
\* Faulty variant of checkCollisionWithTrees: the z test reads newX.
checkTreesMixedAxes(ts, newX, newZ) ==
    \E i \in 1..Len(ts) :
        Abs(ts[i].x - newX) < TREE_COLLISION_SIZE /\ Abs(ts[i].z - newX) < TREE_COLLISION_SIZE

checkCollisionWithTrees(ts, newX, newZ) ==
    \E i \in 1..Len(ts) :
        Abs(ts[i].x - newX) < TREE_COLLISION_SIZE /\ Abs(ts[i].z - newZ) < TREE_COLLISION_SIZE

checkCollisionWithCars(cs, newX, newZ) ==
    \E i \in 1..Len(cs) :
        Abs(cs[i].x - newX) < CAR_COLLISION_SIZE /\ Abs(cs[i].z - newZ) < CAR_COLLISION_SIZE

\* ------------------------------------------------------------ session
\* The session record gameOver and drawScene work on.
Session == [isPaused |-> isPaused, isGameOver |-> isGameOver,
            scoreText |-> scoreText,
            modalHidden |-> modalHidden]

gameOver(s) ==
    [s EXCEPT !.isPaused = TRUE, !.isGameOver = TRUE,
              !.modalHidden = FALSE]

Init ==
    /\ player = [x |-> -50, z |-> 0, rotationY |-> 90]
    /\ cameraX = START_CAMERA
    /\ isPaused = FALSE
    /\ isGameOver = FALSE
    /\ lastTime = NullTime
    /\ maxDistanceX = initialX
    /\ scoreText = 0
    /\ modalHidden = TRUE
    /\ seed \in Seeds
    /\ \E w \in {FreshWorld[seed]} :
          /\ terrainRows = w.rows
          /\ trees = w.trees
          /\ cars = w.cars
    /\ frames = 0
    /\ hist = [ev |-> "init", phase |-> "Running", dt |-> 0,
               clicks |-> 0, before |-> NoSnapshot, gap |-> 0, fresh |-> 0]
    /\ resumed = 0
    /\ view = [projectionMode |-> "ortho", cameraMode |-> 0, V |-> <<0, 1, 0>>]
    /\ boot = [models |-> NumObjFiles, result |-> "undefined",
               errorLogged |-> FALSE, raf |-> TRUE]

\* Faulty variant of clearedTime: restartGame leaves lastTime alone.
clearedTimeKept(lt) == lt

\* lastTime after restartGame: "lastTime = null".
clearedTime(lt) == NullTime

\* Faulty variant of restartGame: step 5 (clearing the arrays) is missing, so
\* initTerrain pushes onto what the ended session left.
restartGameKeepsArrays ==
    /\ isPaused' = FALSE
    /\ isGameOver' = FALSE
    /\ player' = [x |-> -50, z |-> 0, rotationY |-> 90]
    /\ cameraX' = START_CAMERA
    /\ maxDistanceX' = initialX
    /\ scoreText' = 0
    /\ seed' \in Seeds
    /\ \E w \in {initTerrain([rows |-> terrainRows, trees |-> trees, cars |-> cars],
                              START_CAMERA, seed')} :
          /\ terrainRows' = w.rows
          /\ trees' = w.trees
          /\ cars' = w.cars
    /\ modalHidden' = TRUE
    /\ lastTime' = NullTime
    /\ hist' = Event("restart", 0)
    /\ frames' = 0
    /\ UNCHANGED <<view, boot>>

restartGame ==
    /\ isPaused' = FALSE
    /\ isGameOver' = FALSE
    /\ player' = [x |-> -50, z |-> 0, rotationY |-> 90]
    /\ cameraX' = START_CAMERA
    /\ maxDistanceX' = initialX
    /\ scoreText' = 0
    /\ seed' \in Seeds
    /\ \E w \in {FreshWorld[seed']} :
          /\ terrainRows' = w.rows
          /\ trees' = w.trees
          /\ cars' = w.cars
    /\ modalHidden' = TRUE
    /\ lastTime' = clearedTime(lastTime)
    /\ hist' = Event("restart", 0)
    /\ frames' = 0
    /\ UNCHANGED <<view, boot>>

\* Faulty variant of pauseClick: the button pauses and never resumes.
pauseClickOnlyPauses ==
    /\ isPaused' = TRUE
    /\ hist' = ClickEvent
    /\ UNCHANGED <<player, cameraX, isGameOver, lastTime, maxDistanceX, scoreText,
                   modalHidden, terrainRows, trees, cars, seed,
                   frames, view, boot>>

pauseClick ==
    /\ isPaused' = ~isPaused
    /\ hist' = ClickEvent
    /\ UNCHANGED <<player, cameraX, isGameOver, lastTime, maxDistanceX, scoreText,
                   modalHidden, terrainRows, trees, cars, seed,
                   frames, view, boot>>

\* ------------------------------------------------------------ keyDown
\* The player after the switch of keyDown for one of w, a, s, d.
movePlayer(p, ts, key) ==
    CASE key = "w" ->
           LET newXForward == p.x + step
           IN  [x |-> IF ~checkCollisionWithTrees(ts, newXForward, p.z)
                      THEN newXForward ELSE p.x,
                z |-> p.z, rotationY |-> 90]
      [] key = "s" ->
           LET newXBackward == p.x - step
           IN  [x |-> IF ~checkCollisionWithTrees(ts, newXBackward, p.z)
                      THEN newXBackward ELSE p.x,
                z |-> p.z, rotationY |-> 270]
      [] key = "a" ->
           LET newZLeft == p.z - step
           IN  [x |-> p.x,
                z |-> IF newZLeft >= -boundaryLimit
                         /\ ~checkCollisionWithTrees(ts, p.x, newZLeft)
                      THEN newZLeft ELSE p.z,
                rotationY |-> 180]
      [] key = "d" ->
           LET newZRight == p.z + step
           IN  [x |-> p.x,
                z |-> IF newZRight <= boundaryLimit
                         /\ ~checkCollisionWithTrees(ts, p.x, newZRight)
                      THEN newZRight ELSE p.z,
                rotationY |-> 0]

\* The walk is explored between MaxBack rows behind and MaxFwd rows ahead of
\* the spawn row.
InWalkBounds(p, key) ==
    /\ key = "w" => p.x + step <= initialX + MaxFwd * step
    /\ key = "s" => p.x - step >= initialX - MaxBack * step

\* projectionMode and cameraMode after the switch of keyDown.
switchView(v, key) ==
    CASE key = "1" -> [v EXCEPT !.projectionMode = "ortho"]
      [] key = "2" -> [v EXCEPT !.projectionMode = "perspective"]
      [] key = "c" -> [v EXCEPT !.cameraMode = (v.cameraMode + 1) % 2]
      [] OTHER -> v

keyDown(key) ==
    /\ player' = IF isPaused \/ key \notin MoveKeys THEN player
                 ELSE movePlayer(player, trees, key)
    /\ view' = IF isPaused THEN view ELSE switchView(view, key)
    /\ hist' = Event(IF key \in MoveKeys THEN KeyOutcome(player, player')
                     ELSE IF isPaused THEN "ignored" ELSE "view", 0)
    /\ UNCHANGED <<cameraX, isPaused, isGameOver, lastTime, maxDistanceX, scoreText,
                   modalHidden, terrainRows, trees, cars, seed,
                   frames, boot>>

\* ------------------------------------------------------------ drawScene
\* The car update of drawScene: cars.forEach, in place, in array order.
\* Faulty variant of moveCar: the wrap-around is missing.
moveCarNoWrap(cs, i, dtMs) ==
    LET car == cs[i]
        newZ == car.z + (car.speed * car.direction * step * dtMs) \div MsPerSecond
        wouldCollide == \E k \in 1..Len(cs) :
                           /\ k # i
                           /\ cs[k].x = car.x
                           /\ Abs(cs[k].z - newZ) < CAR_RADIUS
    IN  [cs EXCEPT ![i].z = IF ~wouldCollide THEN newZ ELSE car.z]

\* One pass of cars.forEach for the car at index i.
moveCar(cs, i, dtMs) ==
    LET car == cs[i]
        newZ == car.z + (car.speed * car.direction * step * dtMs) \div MsPerSecond
        wouldCollide == \E k \in 1..Len(cs) :
                           /\ k # i
                           /\ cs[k].x = car.x
                           /\ Abs(cs[k].z - newZ) < CAR_RADIUS
        z1 == IF ~wouldCollide THEN newZ ELSE car.z
        velocidadeReal == car.speed * car.direction
        z2 == IF velocidadeReal > 0 /\ z1 > car.maxZ THEN car.minZ
              ELSE IF velocidadeReal < 0 /\ z1 < car.minZ THEN car.maxZ
              ELSE z1
    IN  [cs EXCEPT ![i].z = z2]

\* The passes for the cars lo..hi, in array order.
RECURSIVE moveRange(_, _, _, _), thenMoveRange(_, _, _, _)
moveRange(cs, lo, hi, dtMs) ==
    IF lo > hi THEN cs
    ELSE IF lo = hi THEN moveCar(cs, lo, dtMs)
    ELSE thenMoveRange(moveRange(cs, lo, (lo + hi) \div 2, dtMs),
                       ((lo + hi) \div 2) + 1, hi, dtMs)

thenMoveRange(cs, lo, hi, dtMs) ==
    IF Evaluated(cs) THEN moveRange(cs, lo, hi, dtMs) ELSE cs

moveCars(cs, dtMs) == moveRange(cs, 1, Len(cs), dtMs)

\* dt of a frame, in ms: "if (!lastTime) lastTime = time" and then
\* time - lastTime, for a callback that comes sinceLatest ms after the latest
\* one: time - lastTime is sinceLatest plus what lastTime lies behind the
\* latest callback.
\* Faulty variant of pausedBaseline: a paused callback leaves lastTime alone.
pausedBaselineKept(lt, sinceLatest) ==
    IF lt = NullTime THEN NullTime ELSE lt + sinceLatest

\* lastTime after a paused callback: "lastTime = time".
pausedBaseline(lt, sinceLatest) == 0

frameDt(lt, sinceLatest) == IF lt = NullTime THEN 0 ELSE sinceLatest + lt

\* The event of a frame callback that comes sinceLatest ms after the latest
\* one: gap is sinceLatest when the callback computed a dt from a lastTime
\* that was set.
TickEvent(sinceLatest) ==
    [Event("tick", IF isPaused THEN 0 ELSE frameDt(lastTime, sinceLatest))
       EXCEPT !.gap = IF isPaused \/ lastTime = NullTime THEN 0 ELSE sinceLatest]

\* Faulty variant of scoreMax: the assignment is outside the if.
scoreMaxLatest(playerX, maxD) == playerX

\* Faulty variant of scoreShown: the score of the current position.
scoreShownCurrent(playerX, maxD, shown) == (playerX - initialX) \div step

\* Faulty variant of leftBehind: the margin is missing.
leftBehindNoMargin(playerX, cam) == playerX < cam

\* maxDistanceX after the score block.
scoreMax(playerX, maxD) == IF playerX > maxD THEN playerX ELSE maxD

\* scoreElement.textContent after the score block.
scoreShown(playerX, maxD, shown) ==
    IF playerX > maxD THEN (playerX - initialX) \div step ELSE shown

\* Faulty variant of scrollAdvance: the camera does not scroll.
scrollAdvanceStalls(cam, dtMs) == cam

\* cameraX += scrollSpeed * dt
scrollAdvance(cam, dtMs) == cam + (scrollSpeedT * dtMs) \div MsPerSecond

\* if (player.x < cameraX + 3.8) gameOver()
leftBehind(playerX, cam) == playerX < cam + CATCH_UP_MARGIN

\* Faulty variant of pullForward: the camera is set on the player whether it
\* lags or not.
pullForwardAlways(cam, playerX) == playerX + viewOffset - lookAhead

\* The up vector after the camera block of drawScene: the top-down camera of
\* the orthographic projection assigns [1, 0, 0] to V; nothing else assigns V.
upVector(v) ==
    IF v.projectionMode = "ortho" /\ v.cameraMode = 1 THEN <<1, 0, 0>> ELSE v.V

\* The pose drawScene hands to setViewingMatrix: the target Pref, the eye P0
\* and the up vector, for the V of main's scope as the camera block left it.
cameraPose(cam, playerZ, projectionMode, cameraMode, upV) ==
    LET targetX == cam + lookAhead
        targetY == 0
        targetZ == playerZ
    IN  [Pref |-> <<targetX, targetY, targetZ>>,
         P0 |-> IF projectionMode = "perspective"
                THEN <<targetX - 250, targetY + 200, targetZ>>
                ELSE IF cameraMode = 1
                THEN <<targetX - 1, targetY + 300, targetZ>>
                ELSE <<targetX - 100, targetY + 150, targetZ + 10>>,
         V |-> upV]

\* Faulty variant of pullForward: the player is held at the centre line, the
\* view offset is left out.
pullForwardNoViewOffset(cam, playerX) ==
    IF cam < playerX - lookAhead THEN playerX - lookAhead ELSE cam

\* The pull-forward rule.
pullForward(cam, playerX) ==
    LET minCameraYForPlayer == playerX + viewOffset - lookAhead
    IN  IF cam < minCameraYForPlayer THEN minCameraYForPlayer ELSE cam

\* Faulty variant of drawScene: the pause branch is missing, a paused frame
\* runs the whole update.
drawSceneNoPauseBranch(sinceLatest) ==
    /\ frames' = frames
    /\ hist' = TickEvent(sinceLatest)
    /\ view' = [view EXCEPT !.V = upVector(view)]
    /\ UNCHANGED boot
    /\ \E dtMs \in {frameDt(lastTime, sinceLatest)} :
       \E cam1 \in {scrollAdvance(cameraX, dtMs)} :
       \E cars2 \in {moveCars(cars, dtMs)} :
       \E w \in {updateTerrain([rows |-> terrainRows, trees |-> trees,
                           cars |-> cars2],
                          pullForward(cam1, player.x), seed)} :
       LET s0 == [Session EXCEPT
               !.scoreText = scoreShown(player.x, maxDistanceX, scoreText)]
           s1 == IF leftBehind(player.x, cam1) THEN gameOver(s0) ELSE s0
           s2 == IF checkCollisionWithCars(cars2, player.x, player.z)
            THEN gameOver(s1) ELSE s1
       IN  /\ lastTime' = 0
           /\ maxDistanceX' = scoreMax(player.x, maxDistanceX)
           /\ scoreText' = s2.scoreText
           /\ cameraX' = pullForward(cam1, player.x)
           /\ isPaused' = s2.isPaused
           /\ isGameOver' = s2.isGameOver
           /\ modalHidden' = s2.modalHidden
           /\ terrainRows' = w.rows
           /\ trees' = w.trees
           /\ cars' = w.cars
           /\ UNCHANGED <<player, seed>>

\* What a callback leaves in the history variables.
callback(sinceLatest) ==
    /\ frames' = IF frameDt(lastTime, sinceLatest) > 0 /\ ~isPaused
                 THEN frames + 1 ELSE frames
    /\ hist' = TickEvent(sinceLatest)

drawScene(sinceLatest) ==
    /\ callback(sinceLatest)
    /\ view' = IF isPaused THEN view ELSE [view EXCEPT !.V = upVector(view)]
    /\ UNCHANGED boot
    /\ IF isPaused
       THEN /\ lastTime' = pausedBaseline(lastTime, sinceLatest)
            /\ UNCHANGED <<player, cameraX, isPaused, isGameOver, maxDistanceX,
                           scoreText, modalHidden, terrainRows, trees,
                           cars, seed>>
       ELSE \E dtMs \in {frameDt(lastTime, sinceLatest)} :
            \E cam1 \in {scrollAdvance(cameraX, dtMs)} :
            \E cars2 \in {moveCars(cars, dtMs)} :
            \E w \in {updateTerrain([rows |-> terrainRows, trees |-> trees,
                                     cars |-> cars2],
                                    pullForward(cam1, player.x), seed)} :
            LET s0 == [Session EXCEPT
                         !.scoreText = scoreShown(player.x, maxDistanceX, scoreText)]
                s1 == IF leftBehind(player.x, cam1) THEN gameOver(s0) ELSE s0
                s2 == IF checkCollisionWithCars(cars2, player.x, player.z)
                      THEN gameOver(s1) ELSE s1
            IN  /\ lastTime' = 0
                /\ maxDistanceX' = scoreMax(player.x, maxDistanceX)
                /\ scoreText' = s2.scoreText
                /\ cameraX' = pullForward(cam1, player.x)
                /\ isPaused' = s2.isPaused
                /\ isGameOver' = s2.isGameOver
                /\ modalHidden' = s2.modalHidden
                /\ terrainRows' = w.rows
                /\ trees' = w.trees
                /\ cars' = w.cars
                /\ UNCHANGED <<player, seed>>

\* requestAnimationFrame: the next callback comes d ms after the latest one.
\* MaxFrames bounds the frames of a session in which game time passes; a
\* paused frame, and the first frame after lastTime was cleared, are free.
Frame ==
    \E d \in DtChoices :
        /\ (frameDt(lastTime, d) > 0 /\ ~isPaused) => frames < MaxFrames
        /\ drawScene(d)

KeyPress == \E key \in MoveKeys : InWalkBounds(player, key) /\ keyDown(key)

Next ==
    \/ Frame /\ UNCHANGED resumed
    \/ KeyPress /\ UNCHANGED resumed
    \/ pauseClick /\ UNCHANGED resumed
    \/ restartGame /\ UNCHANGED resumed

Spec == Init /\ [][Next]_vars

\* ------------------------------------------------------------ long frames
\* A frame callback that comes five minutes after the latest one, as when the
\* page was in a background tab: requestAnimationFrame callbacks stop there
\* and the next one carries the whole gap in its timestamp.
LongDtChoices == {300000}

LongFrame ==
    \E d \in LongDtChoices :
        /\ (frameDt(lastTime, d) > 0 /\ ~isPaused) => frames < MaxLongFrames
        /\ drawScene(d)

NextLongFrame ==
    \/ LongFrame /\ UNCHANGED resumed
    \/ KeyPress /\ UNCHANGED resumed
    \/ pauseClick /\ UNCHANGED resumed
    \/ restartGame /\ UNCHANGED resumed

SpecLongFrame == Init /\ [][NextLongFrame]_vars

\* ------------------------------------------------------------ main
\* models.length after the loading loop: every OBJ file failed to load, or
\* every one loaded.
LoadChoices == {0, NumObjFiles}

\* The page before its "load" event: main has not run, the arrays are empty
\* and no frame callback is requested.
InitLoad ==
    /\ player = [x |-> -50, z |-> 0, rotationY |-> 90]
    /\ cameraX = START_CAMERA
    /\ isPaused = FALSE
    /\ isGameOver = FALSE
    /\ lastTime = NullTime
    /\ maxDistanceX = initialX
    /\ scoreText = 0
    /\ modalHidden = TRUE
    /\ seed = 1
    /\ terrainRows = <<>>
    /\ trees = <<>>
    /\ cars = <<>>
    /\ frames = 0
    /\ hist = [ev |-> "load", phase |-> "Running", dt |-> 0,
               clicks |-> 0, before |-> NoSnapshot, gap |-> 0, fresh |-> 0]
    /\ resumed = 0
    /\ view = [projectionMode |-> "ortho", cameraMode |-> 0, V |-> <<0, 1, 0>>]
    /\ boot = [models |-> -1, result |-> "pending",
               errorLogged |-> FALSE, raf |-> FALSE]

\* main(): the loading loop, then either "if (models.length === 0) {
\* console.error(...); return; }" or the rest of main, which ends with
\* initTerrain(-12) and requestAnimationFrame(drawScene).  The async function
\* returns without a value on both paths: its promise resolves with undefined.
main ==
    /\ boot.models = -1
    /\ \E n \in LoadChoices :
          IF n = 0
          THEN /\ boot' = [models |-> 0, result |-> "undefined",
                           errorLogged |-> TRUE, raf |-> FALSE]
               /\ hist' = [hist EXCEPT !.ev = "main"]
               /\ UNCHANGED <<player, cameraX, isPaused, isGameOver, lastTime,
                              maxDistanceX, scoreText, modalHidden, terrainRows,
                              trees, cars, seed, frames, view>>
          ELSE /\ boot' = [models |-> n, result |-> "undefined",
                           errorLogged |-> FALSE, raf |-> TRUE]
               /\ hist' = [hist EXCEPT !.ev = "init"]
               /\ seed' \in Seeds
               /\ \E w \in {FreshWorld[seed']} :
                     /\ terrainRows' = w.rows
                     /\ trees' = w.trees
                     /\ cars' = w.cars
               /\ UNCHANGED <<player, cameraX, isPaused, isGameOver, lastTime,
                              maxDistanceX, scoreText, modalHidden, frames, view>>

\* The handlers and the frame callback exist once main has got to its end.
Started == boot.raf

NextLoad ==
    \/ main /\ UNCHANGED resumed
    \/ Started /\ Frame /\ UNCHANGED resumed
    \/ Started /\ KeyPress /\ UNCHANGED resumed
    \/ Started /\ pauseClick /\ UNCHANGED resumed
    \/ Started /\ restartGame /\ UNCHANGED resumed

SpecLoad == InitLoad /\ [][NextLoad]_vars

\* ------------------------------------------------------------ spawning
\* createRow, spawnTreesOnRow and spawnCarsOnRow as functions of the row's x
\* and of the draws of Math.random(): rows are made one after the other, in
\* increasing x as both row loops make them, from draws taken from SpawnDraws.
MaxSpawnRows == 2          \* rows made in a run
SpawnXs == {-80, -50, -40, 10}
SpawnZs == {-150, -121, -120}           \* values of randomZ
SpawnTrees == {<<>>, Span(-halfWidth, halfWidth)}  \* no slot draws a tree, or every slot
NumCarsChoices == {2, 3, 4}             \* Math.floor(Math.random() * 3) + 2

SpawnDraws ==
    {Draw(road, dirNeg, 3, treeAt, carZ) :
        road \in BOOLEAN, dirNeg \in BOOLEAN, treeAt \in SpawnTrees,
        carZ \in UNION {[1..numCars -> SpawnZs] : numCars \in NumCarsChoices}}

\* main before initTerrain: the arrays are empty.
InitSpawn ==
    /\ player = [x |-> -50, z |-> 0, rotationY |-> 90]
    /\ cameraX = START_CAMERA
    /\ isPaused = FALSE
    /\ isGameOver = FALSE
    /\ lastTime = NullTime
    /\ maxDistanceX = initialX
    /\ scoreText = 0
    /\ modalHidden = TRUE
    /\ seed = 1
    /\ terrainRows = <<>>
    /\ trees = <<>>
    /\ cars = <<>>
    /\ frames = 0
    /\ hist = [ev |-> "init", phase |-> "Running", dt |-> 0,
               clicks |-> 0, before |-> NoSnapshot, gap |-> 0, fresh |-> 0]
    /\ resumed = 0
    /\ view = [projectionMode |-> "ortho", cameraMode |-> 0, V |-> <<0, 1, 0>>]
    /\ boot = [models |-> NumObjFiles, result |-> "undefined",
               errorLogged |-> FALSE, raf |-> FALSE]

\* One pass of the row loop.
SpawnRow ==
    /\ Len(terrainRows) < MaxSpawnRows
    /\ \E x \in SpawnXs, r \in SpawnDraws :
          /\ \A i \in 1..Len(terrainRows) : terrainRows[i].x < x
          /\ \E w \in {addRowDrawn([rows |-> terrainRows, trees |-> trees,
                                      cars |-> cars], x, r)} :
                /\ terrainRows' = w.rows
                /\ trees' = w.trees
                /\ cars' = w.cars
    /\ hist' = [hist EXCEPT !.ev = "spawn"]
    /\ UNCHANGED <<player, cameraX, isPaused, isGameOver, lastTime, maxDistanceX,
                   scoreText, modalHidden, seed, frames, resumed, view, boot>>

NextSpawn == SpawnRow

SpecSpawn == InitSpawn /\ [][NextSpawn]_vars

\* ------------------------------------------------------------ camera keys
\* The keys 1, 2 and c of keyDown, with the frame callback and the two
\* buttons.
CameraKeyPress == \E key \in CameraKeys : keyDown(key)

NextCamera ==
    \/ Frame /\ UNCHANGED resumed
    \/ CameraKeyPress /\ UNCHANGED resumed
    \/ pauseClick /\ UNCHANGED resumed
    \/ restartGame /\ UNCHANGED resumed

SpecCamera == Init /\ [][NextCamera]_vars

\* ------------------------------------------------------------ sprint
\* Key presses that come faster than the frame callbacks: before the first
\* callback after main or restartGame the player walks ahead and to the
\* right, up to MaxSprint rows ahead of the spawn row, past the furthest row
\* that initTerrain made.  (keyDown returns at once for event.repeat, so
\* every step is a key press of its own.)
MaxSprint == 34            \* rows ahead of the spawn row
SprintKeys == {"w", "d"}

SprintKeyPress ==
    \E key \in SprintKeys :
        /\ lastTime = NullTime
        /\ key = "w" => player.x + step <= initialX + MaxSprint * step
        /\ keyDown(key)

NextSprint ==
    \/ Frame /\ UNCHANGED resumed
    \/ SprintKeyPress /\ UNCHANGED resumed
    \/ pauseClick /\ UNCHANGED resumed
    \/ restartGame /\ UNCHANGED resumed

SpecSprint == Init /\ [][NextSprint]_vars

\* ------------------------------------------------------------ standing still
\* A session that is never paused and never restarted, in which the frame
\* callbacks keep coming (requestAnimationFrame is called again at the end of
\* every callback, line 1419): each callback comes 20 s after the latest one.  The keys
\* take the player at most MaxFwd rows ahead, so in every behaviour the
\* forward moves come to an end.
MaxStillFrames == 5        \* frames of a session in which game time passes
StillDtChoices == {20000}

FrameDue(d) ==
    (frameDt(lastTime, d) > 0 /\ ~isPaused) => frames < MaxStillFrames

StillFrame == \E d \in StillDtChoices : FrameDue(d) /\ drawScene(d)

\* A step is a StillFrame step that changes frames or hist exactly when it is
\* a StillCallback step that does, and the one is possible when the other
\* is: the fairness of the frame callbacks is stated on StillCallback.
StillCallback == \E d \in StillDtChoices : FrameDue(d) /\ callback(d)

NextStill ==
    \/ StillFrame /\ UNCHANGED resumed
    \/ KeyPress /\ UNCHANGED resumed

SpecStill == Init /\ [][NextStill]_vars /\ WF_<<frames, hist>>(StillCallback)

\* ------------------------------------------------------------ pause
\* The frame callback, the pause button and the restart button, with the
\* history of the pause: resumed after the event ev.
ResumedAfter(ev) ==
    CASE ev = "tick" -> IF isPaused THEN 1 ELSE IF resumed = 1 THEN 2 ELSE 0
      [] ev = "pause" -> IF resumed = 1 THEN 1 ELSE 0
      [] OTHER -> 0

NextPause ==
    \/ Frame /\ resumed' = ResumedAfter("tick")
    \/ pauseClick /\ resumed' = ResumedAfter("pause")
    \/ restartGame /\ resumed' = ResumedAfter("restart")

SpecPause == Init /\ [][NextPause]_vars

\* =================================================================
\* Properties
\* =================================================================
Running == ~isPaused /\ ~isGameOver

KeyEvents == {"moved", "blocked", "ignored"}

\* The key that an accepted-or-blocked press was: keyDown sets rotationY to
\* the key's heading whenever it is not paused.
PressedKey(p) ==
    CASE p.rotationY = 90 -> "w"
      [] p.rotationY = 270 -> "s"
      [] p.rotationY = 180 -> "a"
      [] OTHER -> "d"

\* The cell one step away from (x, z) for a key.
TargetX(p, key) == IF key = "w" THEN p.x + 10 ELSE IF key = "s" THEN p.x - 10 ELSE p.x
TargetZ(p, key) == IF key = "a" THEN p.z - 10 ELSE IF key = "d" THEN p.z + 10 ELSE p.z

\* Some live tree covers the cell (x, z): |tree.x - x| < 0.5, |tree.z - z| < 0.5.
TreeCovers(ts, x, z) ==
    \E i \in 1..Len(ts) : Abs(ts[i].x - x) < 5 /\ Abs(ts[i].z - z) < 5

\* Some car overlaps the player: |car.x - x| < 0.7, |car.z - z| < 0.7.
CarOverlaps(cs, p) ==
    \E i \in 1..Len(cs) : Abs(cs[i].x - p.x) < 7 /\ Abs(cs[i].z - p.z) < 7

\* Every car of cs2 on a lane that cs1 has cars on stands where a car of cs1
\* stands: no car changed its position.
CarsKeepPlace(cs1, cs2) ==
    \A i \in 1..Len(cs2) :
        (\E k \in 1..Len(cs1) : cs1[k].x = cs2[i].x)
            => \E k \in 1..Len(cs1) : cs1[k].x = cs2[i].x /\ cs1[k].z = cs2[i].z

\* C1: once gameOver() has fired the session stays in GameOver until
\* restartGame() runs, and until then no tick advances cameraX, a car's z,
\* the lane, tree or car collections, or the score.
C1_GameOverIsTerminal ==
    [][(isGameOver /\ hist'.ev # "restart")
         => /\ isGameOver'
            /\ hist'.ev = "tick"
                 => /\ cameraX' = cameraX
                    /\ cars' = cars
                    /\ trees' = trees
                    /\ terrainRows' = terrainRows
                    /\ scoreText' = scoreText
                    /\ maxDistanceX' = maxDistanceX]_vars

\* C2: a W, A, S or D press received while Paused or in GameOver leaves
\* player.x and player.z unchanged, whatever pause clicks came before.
C2_KeysIgnoredWhenNotRunning ==
    [][((isPaused \/ isGameOver) /\ hist'.ev \in KeyEvents)
         => player'.x = player.x /\ player'.z = player.z]_vars

\* C3: in every state (after initialisation, after Restart, after every
\* tick) every live tree and car has x in [cameraX - 15, cameraX + 40].
C3_EntitiesInBand ==
    /\ \A i \in 1..Len(trees) :
          trees[i].x >= cameraX - 150 /\ trees[i].x <= cameraX + 400
    /\ \A i \in 1..Len(cars) :
          cars[i].x >= cameraX - 150 /\ cars[i].x <= cameraX + 400

\* C4: a Running tick after whose car moves a car overlaps the player ends
\* in GameOver (isPaused and isGameOver), and from then on neither the
\* player's position nor a car's position changes until Restart.
C4_CarHitEndsSession ==
    [][/\ (Running /\ hist'.ev = "tick" /\ CarOverlaps(cars', player))
            => isPaused' /\ isGameOver'
       /\ (isGameOver /\ CarOverlaps(cars, player) /\ hist'.ev # "restart")
            => /\ player'.x = player.x
               /\ player'.z = player.z
               /\ CarsKeepPlace(cars, cars')]_vars

\* C5: in a Running tick, with cameraX advanced by scrollSpeed * dt, a
\* player with player.x < cameraX + 3.8 ends the tick in GameOver; a player
\* with player.x >= cameraX + 3.8 that no car overlaps ends it Running.
C5_LeftBehindRule ==
    [][(Running /\ hist'.ev = "tick")
         => LET advanced == cameraX + (2 * hist'.dt) \div 1000
            IN  /\ player.x < advanced + 38 => isGameOver' /\ isPaused'
                /\ (player.x >= advanced + 38 /\ ~CarOverlaps(cars', player))
                     => ~isGameOver' /\ ~isPaused']_vars

\* A Running tick in which time passed has just ended the session of a
\* player that no car overlaps: the player was left behind.
C5_Witness ==
    /\ hist.ev = "tick" /\ hist.phase = "Running" /\ hist.dt > 0
    /\ isGameOver /\ isPaused
    /\ player.x < cameraX + 38
    /\ ~CarOverlaps(cars, player)

\* C6: a move key pressed while Running whose target cell is covered by a
\* live tree leaves player.x and player.z unchanged, and the session goes
\* on Running.
C6_TreeBlocksMove ==
    [][(Running /\ hist'.ev \in {"moved", "blocked"}
          /\ TreeCovers(trees, TargetX(player, PressedKey(player')),
                               TargetZ(player, PressedKey(player'))))
         => /\ player'.x = player.x
            /\ player'.z = player.z
            /\ ~isPaused' /\ ~isGameOver']_vars

\* A press while Running has just been turned down, with a tree on the cell
\* it aimed at.
C6_Witness ==
    /\ hist.ev = "blocked" /\ hist.phase = "Running"
    /\ TreeCovers(trees, TargetX(player, PressedKey(player)),
                         TargetZ(player, PressedKey(player)))

\* C7: player.z is always in [-8, 8] (boundaryLimit = floor(31 / 4) + 1 = 8),
\* and an A or D press whose target z is outside this range leaves player.z
\* unchanged.
C7_LateralBounds ==
    /\ [](player.z >= -80 /\ player.z <= 80)
    /\ [][(hist'.ev \in {"moved", "blocked"}
             /\ PressedKey(player') \in {"a", "d"}
             /\ (TargetZ(player, PressedKey(player')) < -80
                   \/ TargetZ(player, PressedKey(player')) > 80))
            => player'.z = player.z]_vars

\* A D press at z = 8, with no tree on the cell beyond, has just been turned
\* down.
C7_Witness ==
    /\ hist.ev = "blocked" /\ hist.phase = "Running"
    /\ player.z = 80 /\ player.rotationY = 0
    /\ ~TreeCovers(trees, player.x, 90)

\* C8: between two Restarts neither the displayed score nor maxDistanceX
\* decreases, whatever ticks and moves (backward moves too) happen; right
\* after Restart the score is 0 and maxDistanceX is -5.
C8_ScoreMonotone ==
    [][/\ hist'.ev # "restart"
            => scoreText' >= scoreText /\ maxDistanceX' >= maxDistanceX
       /\ hist'.ev = "restart"
            => scoreText' = 0 /\ maxDistanceX' = -50]_vars

\* A Running tick has just run with the player behind the furthest x it
\* had reached, and the score is still the one of that furthest x.
C8_Witness ==
    /\ hist.ev = "tick" /\ hist.phase = "Running"
    /\ player.x < maxDistanceX
    /\ scoreText > (player.x + 50) \div 10
    /\ scoreText = (maxDistanceX + 50) \div 10

\* C9: after a Running tick maxDistanceX is the largest player.x seen at a
\* tick of the session and the displayed score is floor((maxDistanceX + 5)
\* / 1); a player that has walked to x = 5, and never further, is shown 10.
C9_ScoreFormula ==
    [][(Running /\ hist'.ev = "tick")
         => /\ maxDistanceX' = IF player.x > maxDistanceX THEN player.x
                               ELSE maxDistanceX
            /\ scoreText' = (maxDistanceX' + 50) \div 10
            /\ (player.x = 50 /\ maxDistanceX <= 50) => scoreText' = 10]_vars

\* A Running tick has just run with the player at x = 5, ten rows ahead of
\* the spawn row, and the score shown is 10.
C9_Witness ==
    /\ hist.ev = "tick" /\ hist.phase = "Running"
    /\ player.x = 50 /\ maxDistanceX = 50 /\ scoreText = 10

\* C10: restartGame() in GameOver gives, in one step, isPaused = false and
\* isGameOver = false, score 0, the player at (-5, 0) heading 90, cameraX =
\* -12, the lanes x = -22 .. 27 and nothing else, and trees and cars that
\* are the ones generated for these lanes: each on a lane of its kind, and
\* none left from the session that ended.
C10_RestartFromGameOver ==
    [][(isGameOver /\ hist'.ev = "restart")
         => /\ ~isPaused' /\ ~isGameOver'
            /\ scoreText' = 0
            /\ player' = [x |-> -50, z |-> 0, rotationY |-> 90]
            /\ cameraX' = -120
            /\ Len(terrainRows') = 50
            /\ \A i \in 1..Len(terrainRows') : terrainRows'[i].x = -220 + (i - 1) * 10
            /\ \A i \in 1..Len(trees') :
                  /\ trees'[i].x >= -220 /\ trees'[i].x <= 270 /\ trees'[i].x % 10 = 0
                  /\ terrainRows'[(trees'[i].x + 220) \div 10 + 1].type = "grass"
            /\ \A i \in 1..Len(cars') :
                  /\ cars'[i].x >= -220 /\ cars'[i].x <= 270 /\ cars'[i].x % 10 = 0
                  /\ LET lane == terrainRows'[(cars'[i].x + 220) \div 10 + 1]
                     IN  /\ lane.type = "road"
                         /\ lane.speed = cars'[i].speed
                         /\ lane.direction = cars'[i].direction
            /\ trees' = FreshWorld[seed'].trees
            /\ cars' = FreshWorld[seed'].cars]_vars

\* restartGame() has just run on a session that was in GameOver.
C10_Witness ==
    /\ hist.ev = "restart" /\ hist.phase = "GameOver"
    /\ Running
    /\ Len(terrainRows) = 50 /\ Len(trees) > 0 /\ Len(cars) > 0

\* C11: a tick that comes while the session is paused changes lastTime and
\* nothing else: cameraX, the cars (every car's z), the lanes, the trees,
\* maxDistanceX and the score are as they were.
C11_PausedTickChangesNothing ==
    [][(isPaused /\ hist'.ev = "tick")
         => /\ cameraX' = cameraX
            /\ cars' = cars
            /\ terrainRows' = terrainRows
            /\ trees' = trees
            /\ maxDistanceX' = maxDistanceX
            /\ scoreText' = scoreText
            /\ player' = player
            /\ isPaused' /\ isGameOver' = isGameOver]_vars

\* A tick has just come in the phase Paused of a session in which game time
\* had passed and the player had walked ahead: lastTime is refreshed, the
\* score is not.
C11_Witness ==
    /\ hist.ev = "tick" /\ hist.phase = "Paused"
    /\ isPaused /\ ~isGameOver
    /\ lastTime = 0
    /\ frames > 0
    /\ player.x > maxDistanceX

\* C12: two clicks on the pause button with nothing in between leave
\* isPaused, isGameOver and every position (player, cars, trees, lanes,
\* cameraX) as they were before the first click, whatever the phase was.
C12_TwoClicksRestore ==
    (hist.ev = "pause" /\ hist.clicks = 2) => Snapshot = hist.before

\* The second of two clicks in a row has just been made on a session that
\* was in GameOver, with lanes, trees and cars live.
C12_Witness ==
    /\ hist.ev = "pause" /\ hist.clicks = 2
    /\ hist.before.isGameOver /\ hist.before.isPaused
    /\ isGameOver /\ isPaused
    /\ Len(cars) > 0 /\ Len(trees) > 0 /\ Len(terrainRows) > 0

\* C13: in every state (after initialisation, after Restart, after every
\* updateTerrain) terrainRows is strictly increasing in x: sorted, and no two
\* lanes at one x.
C13_LanesStrictlyIncreasing ==
    \A i \in 1..(Len(terrainRows) - 1) : terrainRows[i].x < terrainRows[i + 1].x

\* A tick's updateTerrain has just evicted lanes at the back and added lanes
\* at the front of the initial window x = -22 .. 27.
C13_Witness ==
    /\ hist.ev = "tick"
    /\ Len(terrainRows) > 1
    /\ terrainRows[1].x > -220
    /\ terrainRows[Len(terrainRows)].x > 270

\* The distance a car's speed and direction take it over dtMs, in tenths.
CarDelta(car, dtMs) == (car.speed * car.direction * 10 * dtMs) \div 1000

\* C14: in every state every car has minZ <= z <= maxZ; and a car that a tick
\* moved is at z + speed * direction * dt, unless that is past maxZ for a car
\* moving in +z, which is then at minZ, or past minZ for a car moving in -z,
\* which is then at maxZ.  (In a tick that evicts no lane the cars keep their
\* indices.)
C14_CarsWithinBounds ==
    /\ [](\A i \in 1..Len(cars) : cars[i].minZ <= cars[i].z /\ cars[i].z <= cars[i].maxZ)
    /\ [][(hist'.ev = "tick" /\ Len(terrainRows) > 0 /\ Len(terrainRows') > 0
             /\ terrainRows'[1].x = terrainRows[1].x)
            => \A i \in 1..Len(cars) :
                  LET raw == cars[i].z + CarDelta(cars[i], hist'.dt)
                  IN  cars'[i].z # cars[i].z
                        => cars'[i].z =
                             IF cars[i].direction > 0 /\ raw > cars[i].maxZ
                             THEN cars[i].minZ
                             ELSE IF cars[i].direction < 0 /\ raw < cars[i].minZ
                             THEN cars[i].maxZ
                             ELSE raw]_vars

\* A tick in which time passed has just ended with a car that moves in +z
\* at minZ and a car that moves in -z at maxZ: both went past their bound and
\* were reset.
C14_Witness ==
    /\ hist.ev = "tick" /\ hist.dt > 0
    /\ \E i \in 1..Len(cars) : cars[i].direction > 0 /\ cars[i].z = cars[i].minZ
    /\ \E i \in 1..Len(cars) : cars[i].direction < 0 /\ cars[i].z = cars[i].maxZ

\* C15: no step of a session lowers cameraX: a tick raises it by the
\* auto-scroll or by the pull-forward rule, or leaves it; only restartGame
\* lowers it, to -12.
C15_CameraNeverGoesBack ==
    [][/\ hist'.ev # "restart" => cameraX' >= cameraX
       /\ hist'.ev = "restart" => cameraX' = -120]_vars

\* A Running tick in which time passed has just ended with the camera ahead
\* of its start, at the place the pull-forward rule gives for the player.
C15_Witness ==
    /\ hist.ev = "tick" /\ hist.phase = "Running" /\ hist.dt > 0
    /\ cameraX = player.x + 5 - 100
    /\ cameraX > -120

\* C16: when models.length is 0 after the loading loop no session starts
\* (the terrain is not initialised, no frame callback is requested and none
\* has run) and main hands its caller an outcome that differs from the
\* "undefined" a started session gives.
C16_NoModelsIsFatal ==
    boot.models = 0
      => /\ terrainRows = <<>> /\ trees = <<>> /\ cars = <<>>
         /\ ~boot.raf
         /\ lastTime = NullTime
         /\ boot.result # "undefined"

\* C17: after a tick any two live cars on one lane (the same x) are at least
\* 2.0 apart in z, whether they moved, stalled or wrapped around.
C17_CarsKeepApart ==
    hist.ev = "tick"
      => \A i, k \in 1..Len(cars) :
            (i # k /\ cars[i].x = cars[k].x) => Abs(cars[i].z - cars[k].z) >= 20

\* Cars i and k of cs share a lane and each is within the radius of the place
\* the other would move to over dtMs.  Neither then moves in a tick of this dt,
\* which leaves both where they are, so neither moves in any later tick of
\* this dt, or of a shorter one.
BlockEachOther(cs, i, k, dtMs) ==
    /\ i # k
    /\ cs[i].x = cs[k].x
    /\ Abs(cs[k].z - (cs[i].z + CarDelta(cs[i], dtMs))) < 20
    /\ Abs(cs[i].z - (cs[k].z + CarDelta(cs[k], dtMs))) < 20

\* C18: while the session is Running and ticks with dt > 0 go on, every live
\* car's z changes again and again: a stall is a deferred step, never a stop
\* for good.  So no Running tick with dt > 0 ends, still Running, with two cars
\* that block each other for this dt: such a pair stays put however many ticks
\* of this dt follow.
C18_NoCarStopsForGood ==
    (hist.ev = "tick" /\ hist.phase = "Running" /\ hist.dt > 0 /\ Running)
      => \A i, k \in 1..Len(cars) : ~BlockEachOther(cars, i, k, hist.dt)

\* C19: a Running tick runs its steps in the order delta time, scroll
\* advance, updateTerrain, traffic movement, car collision test, score,
\* session transition.  With updateTerrain ahead of the traffic movement the
\* cars at the end of the tick are the cars of the updated window, each moved
\* for this tick's dt.
C19_TickOrder ==
    [][(Running /\ hist'.ev = "tick")
         => \E w \in {updateTerrain([rows |-> terrainRows, trees |-> trees,
                                     cars |-> cars], cameraX', seed)} :
               /\ terrainRows' = w.rows
               /\ trees' = w.trees
               /\ cars' = moveCars(w.cars, hist'.dt)]_vars

\* C20: at the end of every tick no lane, tree or car has x < cameraX - 15,
\* also when cameraX has jumped by more than the length of the window and
\* every lane was evicted before new ones were made.
C20_NothingBehindWindow ==
    hist.ev = "tick"
      => /\ \A i \in 1..Len(terrainRows) : terrainRows[i].x >= cameraX - 150
         /\ \A i \in 1..Len(trees) : trees[i].x >= cameraX - 150
         /\ \A i \in 1..Len(cars) : cars[i].x >= cameraX - 150

\* How many lanes of rows the eviction of updateTerrain keeps for the camera
\* at cam.
KeptLanes(rows, cam) ==
    Cardinality({i \in 1..Len(rows) : rows[i].x >= cam - BEHIND_MARGIN})

\* C21: after every updateTerrain(cameraX) call the furthest lane has
\* x >= cameraX + 40; every lane appended by the call has x = previous
\* furthest lane + 1, the next one + 2 and so on, so that consecutive lanes
\* differ by exactly ROW_DEPTH; and the trees and cars of each appended lane
\* are those of one spawn.
C21_ExtendContinuesLanes ==
    [][(hist'.ev = "tick" /\ ~isPaused)
         => LET kept == KeptLanes(terrainRows, cameraX')
                last == terrainRows[Len(terrainRows)].x
                n == Len(terrainRows')
            IN  /\ terrainRows'[n].x >= cameraX' + DRAW_DISTANCE * step
                /\ \A j \in 2..n : terrainRows'[j].x = terrainRows'[j - 1].x + ROW_DEPTH
                /\ \A j \in (kept + 1)..n :
                      LET r == terrainRows'[j]
                      IN  /\ r.x = last + ROW_DEPTH * (j - kept)
                          /\ SelectSeq(trees', LAMBDA t : t.x = r.x)
                               = spawnTreesOnRow(<<>>, r, Rnd(seed, r.x))
                          /\ Len(SelectSeq(cars', LAMBDA c : c.x = r.x))
                               = Len(spawnCarsOnRow(<<>>, r, Rnd(seed, r.x)))]_vars

\* C22: the dt of the first tick that is not paused after paused ticks is
\* the time since the latest callback, the last paused one (lastTime holds
\* its timestamp): no time spent paused is in it, however long the pause was
\* and however many paused ticks there were.
C22_DtExcludesPause ==
    (hist.ev = "tick" /\ resumed = 2) => hist.dt = hist.gap

C22_Witness ==
    /\ hist.ev = "tick"
    /\ resumed = 2
    /\ hist.dt = 500
    /\ hist.gap = 500
    /\ Running
    /\ cameraX = START_CAMERA + 1

\* C23: the first tick after restartGame has dt = 0: cameraX is not advanced
\* by the scroll (only the pull-forward rule can move it) and every car that
\* stays in the window keeps its place.
C23_FirstTickAfterRestart ==
    [][(hist.fresh = 1 /\ hist'.ev = "tick")
         => LET kept == SelectSeq(cars, LAMBDA c : c.x >= cameraX' - BEHIND_MARGIN)
            IN  /\ hist'.dt = 0
                /\ cameraX' = IF isPaused THEN cameraX
                              ELSE pullForward(cameraX, player.x)
                /\ SubSeq(cars', 1, Len(kept)) = kept]_vars

C23_Witness ==
    /\ hist.ev = "tick"
    /\ hist.fresh = 2
    /\ hist.phase = "Running"
    /\ hist.dt = 0
    /\ lastTime = 0
    /\ cameraX = START_CAMERA
    /\ cars # <<>>

\* C24: at the end of every Running tick cameraX >= player.x +
\* worldHeight/6 - 10: when the scrolled cameraX is below that value the
\* tick sets it to exactly that value, and otherwise it is the scrolled
\* cameraX.
C24_PullForward ==
    [][(Running /\ hist'.ev = "tick")
         => LET scrolled == cameraX + (scrollSpeedT * hist'.dt) \div MsPerSecond
                minRequired == player.x + (step * CanvasHeight) \div CanvasWidth - 100
            IN  /\ cameraX' >= minRequired
                /\ scrolled < minRequired => cameraX' = minRequired
                /\ scrolled >= minRequired => cameraX' = scrolled]_vars

\* The first tick of a session has just pulled the camera up to a player who
\* walked ahead before it.
C24_Witness ==
    /\ hist.ev = "tick" /\ hist.phase = "Running" /\ hist.dt = 0
    /\ Running
    /\ player.x >= 0
    /\ cameraX = player.x - 95

\* The z of the cars on the lane at x, in the order of the cars array.
CarsOnLane(cs, x) == SelectSeq(cs, LAMBDA c : c.x = x)

\* C25: right after spawning, a road lane has at most 4 cars (2 to 4
\* candidates, none tried again), any two of them at least MIN_DISTANCE = 3.0
\* apart in z (a candidate closer than that to a car already on the lane's x
\* is dropped), and a grass lane has no car.
C25_SpawnSpacing ==
    \A i \in 1..Len(terrainRows) :
        LET lane == CarsOnLane(cars, terrainRows[i].x)
        IN  IF terrainRows[i].type = "road"
            THEN /\ Len(lane) <= 4
                 /\ \A a, b \in 1..Len(lane) :
                       a # b => Abs(lane[a].z - lane[b].z) >= 30
            ELSE lane = <<>>

\* A road lane whose second candidate was dropped (one car from at least two
\* candidates), then a road lane with two cars exactly 3.0 apart.
C25_Witness ==
    /\ Len(terrainRows) = 2
    /\ terrainRows[1].type = "road" /\ terrainRows[2].type = "road"
    /\ Len(CarsOnLane(cars, terrainRows[1].x)) = 1
    /\ Len(cars) = 3
    /\ cars[2].z = -150 /\ cars[3].z = -120

\* C26: the spawn is safe: every lane within the safety distance 3.0 of the
\* player's spawn coordinate x = -5 is grass, and no tree has |x + 5| < 3
\* and |z| < 3.
C26_SpawnSafe ==
    /\ \A i \in 1..Len(terrainRows) :
          Abs(terrainRows[i].x - (-50)) < 30 => terrainRows[i].type = "grass"
    /\ \A i \in 1..Len(trees) :
          ~(Abs(trees[i].x - (-50)) < 30 /\ Abs(trees[i].z) < 30)

\* The up vector of a session in which V was never assigned after main's
\* "let V = [0.0, 1.0, 0.0]", but by the tick itself.
UpOf(projectionMode, cameraMode) ==
    IF projectionMode = "ortho" /\ cameraMode = 1 THEN <<1, 0, 0>> ELSE <<0, 1, 0>>

\* C27: the pose that a tick hands to the renderer (P0, Pref, V) is a
\* function of cameraX, player.z, the projection mode and the camera mode
\* alone: it is the pose that the first tick of a session gives for these
\* four values, whatever projection switches and camera cycles came before.
C27_PoseIsPureFunction ==
    (hist.ev = "tick" /\ hist.phase = "Running")
      => cameraPose(cameraX, player.z, view.projectionMode, view.cameraMode, view.V)
           = cameraPose(cameraX, player.z, view.projectionMode, view.cameraMode,
                        UpOf(view.projectionMode, view.cameraMode))

\* C28: in every reachable state the player is on no tree's cell: no tree
\* has |tree.x - player.x| < 0.5 and |tree.z - player.z| < 0.5.
C28_PlayerOffTrees ==
    \A i \in 1..Len(trees) :
        ~(Abs(trees[i].x - player.x) < 5 /\ Abs(trees[i].z - player.z) < 5)

\* The index in rows of the lane at x, 0 when rows has no lane at x (the
\* lanes of rows are ROW_DEPTH apart, in increasing x).
LaneAt(rows, x) ==
    IF rows = <<>> THEN 0
    ELSE LET i == (x - rows[1].x) \div ROW_DEPTH + 1
         IN  IF i >= 1 /\ i <= Len(rows) /\ rows[i].x = x THEN i ELSE 0

\* C29: in every state each tree has the x of a live grass lane and each car
\* the x of a live road lane, with that lane's speed and its direction, +1
\* or -1 (lanes leave together with their trees and cars); and no step
\* changes the speed or the direction of a lane that stays.
C29_EntitiesOnTheirLanes ==
    /\ [](\A i \in 1..Len(trees) :
            LET n == LaneAt(terrainRows, trees[i].x)
            IN  n > 0 /\ terrainRows[n].type = "grass")
    /\ [](\A i \in 1..Len(cars) :
            LET n == LaneAt(terrainRows, cars[i].x)
            IN  /\ n > 0
                /\ terrainRows[n].type = "road"
                /\ cars[i].direction \in {-1, 1}
                /\ cars[i].direction = terrainRows[n].direction
                /\ cars[i].speed = terrainRows[n].speed)
    /\ [][(hist'.ev # "restart" /\ terrainRows' # terrainRows)
            => \A i \in 1..Len(terrainRows') :
                  LET n == LaneAt(terrainRows, terrainRows'[i].x)
                  IN  n > 0 => terrainRows'[i] = terrainRows[n]]_vars

\* A tick has just evicted every lane of the start with its trees and cars
\* and made the window again from x = 1.
C29_Witness ==
    /\ hist.ev = "tick" /\ hist.dt = 300000
    /\ terrainRows[1].x = 10
    /\ \E i \in 1..Len(trees) : trees[i].x = 10 + 50
    /\ cars # <<>>

\* C30: standing still loses: from every Running state of a session that is
\* never paused, in which ticks with dt > 0 keep coming and the forward moves
\* come to an end, the session gets to GameOver.
C30_StandingStillLoses == Running ~> isGameOver

\* The player walked ahead, stood, and the scroll has just left the player
\* behind: a tick with dt > 0 ended the session with player.x < cameraX + 3.8.
C30_Witness ==
    /\ isGameOver
    /\ hist.ev = "tick" /\ hist.phase = "Running" /\ hist.dt > 0
    /\ player.x > initialX
    /\ player.x < cameraX + 38
    /\ frames >= 2

====
